---- MODULE Spec2Model ----
(***************************************************************************)
(* Model of wispedia/kraph (src/kraph.go): an in-memory weighted directed   *)
(* graph guarded by one sync.RWMutex.  Every public method of *graph is     *)
(* modelled step by step: lock, body statements, unlock, return.  Spec      *)
(* runs one caller (sequential use); SpecConc runs NumCallers callers.      *)
(***************************************************************************)
EXTENDS Integers, Sequences, FiniteSets, TLC

\* ---------------------------------------------------------------- bounds
NumIDs == 2
NumObjs == 1
MaxWgt == 1
MaxCalls == 4
MaxConcCalls == 3
NumCallers == 2
MaxAliasCalls == 2
MaxKeepCalls == 3

\* ---------------------------------------------------------- value domains
\* type nid string; NewNID wraps a label, String unwraps it
NewNID(label) == <<"nid", label>>

String(id) == id[2]

Labels == {"node" \o ToString(i) : i \in 1..NumIDs}

IDS == {NewNID(l) : l \in Labels}

\* NewNode allocates a fresh *node holding the id; obj tells allocations apart
NewNode(id, obj) == [id |-> id, obj |-> obj]

GetId(nd) == nd.id

Nodes == {NewNode(id, o) : id \in IDS, o \in 1..NumObjs}

\* the nil Node (result of indexing the node map with an absent key)
NilNode == [id |-> <<>>, obj |-> 0]

\* float64 weights, modelled as small integers
Weights == 0..MaxWgt

Callers == 1..NumCallers

\* the single caller of the sequential specification
SeqCallers == {1}

\* the nil error
NilErr == <<>>

\* fmt.Errorf("%s does not exist in graph", id)
ErrNotExist(id) == <<"does not exist in graph", String(id)>>

\* fmt.Errorf("there is no edge from %s to %s", pid, id)
ErrNoEdge(id, pid) == <<"there is no edge from", String(pid), String(id)>>

\* ----------------------------------------------------------------- Go maps
EmptyMap == [x \in {} |-> 0]

MapPut(m, k, v) == [x \in (DOMAIN m) \cup {k} |-> IF x = k THEN v ELSE m[x]]

MapDelete(m, k) == [x \in (DOMAIN m) \ {k} |-> m[x]]

HasKey(m, k) == k \in DOMAIN m

\* ------------------------------------------------------------------- state
VARIABLES nodeList, nodeSources, nodeTargets, mu, pc, fr, hist, heap, kept, budget

vars == <<nodeList, nodeSources, nodeTargets, mu, pc, fr, hist, heap, kept, budget>>

store == <<nodeList, nodeSources, nodeTargets>>

\* no caller holds or waits for the writer side of mu
NoWriter == 0

Snapshot == [nl |-> nodeList, ns |-> nodeSources, nt |-> nodeTargets]

NoSnapshot == [nl |-> EmptyMap, ns |-> EmptyMap, nt |-> EmptyMap]

NoID == <<>>

BlankFrame ==
    [op |-> "none", id |-> NoID, pid |-> NoID, wgt |-> 0, nd |-> NilNode,
     ret |-> NilErr, pre |-> NoSnapshot, todo |-> {}, cur |-> NoID,
     ptodo |-> {}, cpid |-> NoID, gw |-> [w |-> 0, err |-> NilErr],
     rs |-> EmptyMap]

Pairs == IDS \X IDS

\* ------------------------------------------------------------ map objects
\* A Go map value is a reference to a map object. heap.ref is the identity of
\* the object g.nodeList refers to, whose contents are the variable nodeList;
\* heap.objs holds the contents of every other map object a caller still
\* refers to: node maps that Init has replaced and the maps GetSources and
\* GetTargets have made. heap.before is the set of references that were
\* obtained before the latest Init. kept[c] is what caller c has stored of
\* the maps returned to it, with the contents each had when it was stored.
NoRef == 0

Refs == 1..(3 * NumCallers + 2)

NewHeap == [ref |-> 1, objs |-> EmptyMap, before |-> {}]

NoMap == [ref |-> NoRef, seen |-> EmptyMap]

NoKept == [nodes |-> NoMap, nbrs |-> NoMap]

\* the references callers have stored
KeptRefs(k) == {k[c].nodes.ref : c \in Callers} \cup {k[c].nbrs.ref : c \in Callers}

\* the references in the return values of the callers cs
FrameRefs(cs) ==
    {fr[c].ret : c \in {d \in cs : pc[d] \in {"RUnlock", "Return"}
                                     /\ fr[d].op = "GetNodes"}}
    \cup {fr[c].ret.m : c \in {d \in cs : pc[d] \in {"RUnlock", "Return"}
                                     /\ fr[d].op \in {"GetSources", "GetTargets"}}}

LiveRefs == (KeptRefs(kept) \cup FrameRefs(Callers)) \ {NoRef}

\* make(map...): an object distinct from every object in use
NewRef(used) == CHOOSE n \in Refs : n \notin used /\ \A m \in Refs \ used : n <= m

\* the contents of the map object r
Deref(r) == IF r = heap.ref THEN nodeList ELSE heap.objs[r]

\* objects no caller refers to any more are gone
Collect(live) ==
    [ref |-> heap.ref,
     objs |-> [r \in (DOMAIN heap.objs) \cap live |-> heap.objs[r]],
     before |-> heap.before \cap live]

HasEdge(ns, id, pid) == HasKey(ns, id) /\ HasKey(ns[id], pid)

\* ------------------------------------------------- bodies of the methods
unsafeIdExist(nl, id) == HasKey(nl, id)

\* g.nodeList[id]: the zero value (nil) for an absent key
NodeAt(nl, id) == IF HasKey(nl, id) THEN nl[id] ELSE NilNode

\* AddNode: g.nodeList[id] = nd
AddNodeList(nl, nd) == MapPut(nl, GetId(nd), nd)

\* mutant: the loop over the inner maps is left out
DeleteNodeTargetsOuterOnly(nt, id) == MapDelete(nt, id)

\* mutant: DeleteNode leaves nodeTargets as it is
DeleteNodeTargetsKeep(nt, id) == nt

\* DeleteNode: delete(g.nodeTargets, id); for each tmap: delete(tmap, id)
DeleteNodeTargets(nt, id) ==
    LET m == MapDelete(nt, id)
    IN  [k \in DOMAIN m |-> MapDelete(m[k], id)]

\* mutant: the loop over the inner maps is left out
DeleteNodeSourcesOuterOnly(ns, id) == MapDelete(ns, id)

\* DeleteNode: delete(g.nodeSources, id); for each smap: delete(smap, id)
DeleteNodeSources(ns, id) ==
    LET m == MapDelete(ns, id)
    IN  [k \in DOMAIN m |-> MapDelete(m[k], id)]

\* mutant: an existing weight is overwritten, not added to
AddEdgeTargetsNoSum(nt, id, pid, wgt) ==
    IF HasKey(nt, pid)
    THEN MapPut(nt, pid, MapPut(nt[pid], id, wgt))
    ELSE MapPut(nt, pid, MapPut(EmptyMap, id, wgt))

\* AddEdge: the nodeTargets[pid][id] half
AddEdgeTargets(nt, id, pid, wgt) ==
    IF HasKey(nt, pid)
    THEN IF HasKey(nt[pid], id)
         THEN MapPut(nt, pid, MapPut(nt[pid], id, nt[pid][id] + wgt))
         ELSE MapPut(nt, pid, MapPut(nt[pid], id, wgt))
    ELSE MapPut(nt, pid, MapPut(EmptyMap, id, wgt))

\* mutant: an existing weight is overwritten, not added to
AddEdgeSourcesNoSum(ns, id, pid, wgt) ==
    IF HasKey(ns, id)
    THEN MapPut(ns, id, MapPut(ns[id], pid, wgt))
    ELSE MapPut(ns, id, MapPut(EmptyMap, pid, wgt))

\* AddEdge: the nodeSources[id][pid] half
AddEdgeSources(ns, id, pid, wgt) ==
    IF HasKey(ns, id)
    THEN IF HasKey(ns[id], pid)
         THEN MapPut(ns, id, MapPut(ns[id], pid, ns[id][pid] + wgt))
         ELSE MapPut(ns, id, MapPut(ns[id], pid, wgt))
    ELSE MapPut(ns, id, MapPut(EmptyMap, pid, wgt))

\* ReplaceEdge: the nodeTargets[pid][id] half
ReplaceEdgeTargets(nt, id, pid, wgt) ==
    IF HasKey(nt, pid)
    THEN MapPut(nt, pid, MapPut(nt[pid], id, wgt))
    ELSE MapPut(nt, pid, MapPut(EmptyMap, id, wgt))

\* mutant: the weight is stored for the reverse pair as well
ReplaceEdgeSourcesBothWays(ns, id, pid, wgt) ==
    AddEdgeSourcesNoSum(AddEdgeSourcesNoSum(ns, id, pid, wgt), pid, id, wgt)

\* ReplaceEdge: the nodeSources[id][pid] half
ReplaceEdgeSources(ns, id, pid, wgt) ==
    IF HasKey(ns, id)
    THEN MapPut(ns, id, MapPut(ns[id], pid, wgt))
    ELSE MapPut(ns, id, MapPut(EmptyMap, pid, wgt))

\* DeleteEdge: the nodeTargets[pid][id] half
DeleteEdgeTargets(nt, id, pid) ==
    IF HasKey(nt, pid)
    THEN IF HasKey(nt[pid], id)
         THEN MapPut(nt, pid, MapDelete(nt[pid], id))
         ELSE nt
    ELSE nt

\* mutant: the edge stays in nodeSources
DeleteEdgeSourcesKeep(ns, id, pid) == ns

\* DeleteEdge: the nodeSources[id][pid] half
DeleteEdgeSources(ns, id, pid) ==
    IF HasKey(ns, id)
    THEN IF HasKey(ns[id], pid)
         THEN MapPut(ns, id, MapDelete(ns[id], pid))
         ELSE ns
    ELSE ns

\* GetNodeCount: len(g.nodeList)
GetNodeCountBody(nl) == Cardinality(DOMAIN nl)

\* mutant: the second endpoint is checked before the first
CheckEndpointsSecondFirst(nl, id, pid) ==
    IF ~unsafeIdExist(nl, pid) THEN ErrNotExist(pid)
    ELSE IF ~unsafeIdExist(nl, id) THEN ErrNotExist(id)
    ELSE NilErr

\* mutant: the second endpoint is not checked
CheckEndpointsFirstOnly(nl, id, pid) ==
    IF ~unsafeIdExist(nl, id) THEN ErrNotExist(id) ELSE NilErr

\* the two endpoint checks shared by AddEdge, ReplaceEdge, DeleteEdge, GetWeight
CheckEndpoints(nl, id, pid) ==
    IF ~unsafeIdExist(nl, id) THEN ErrNotExist(id)
    ELSE IF ~unsafeIdExist(nl, pid) THEN ErrNotExist(pid)
    ELSE NilErr

\* mutant: a missing edge reads as weight 0 without an error
GetWeightBodyZero(nl, ns, id, pid) ==
    IF CheckEndpoints(nl, id, pid) # NilErr
    THEN [w |-> 0, err |-> CheckEndpoints(nl, id, pid)]
    ELSE IF HasEdge(ns, id, pid)
         THEN [w |-> ns[id][pid], err |-> NilErr]
         ELSE [w |-> 0, err |-> NilErr]

\* GetWeight between RLock and RUnlock
GetWeightBody(nl, ns, id, pid) ==
    IF CheckEndpoints(nl, id, pid) # NilErr
    THEN [w |-> 0, err |-> CheckEndpoints(nl, id, pid)]
    ELSE IF HasKey(ns, id)
         THEN IF HasKey(ns[id], pid)
              THEN [w |-> ns[id][pid], err |-> NilErr]
              ELSE [w |-> 0, err |-> ErrNoEdge(id, pid)]
         ELSE [w |-> 0, err |-> ErrNoEdge(id, pid)]

\* mutant: the neighbors are read from the other index
GetSourcesBodyOtherIndex(nl, ns, id) ==
    IF ~unsafeIdExist(nl, id)
    THEN [m |-> EmptyMap, err |-> ErrNotExist(id)]
    ELSE [m |-> [p \in {q \in DOMAIN ns : HasKey(ns[q], id)} |-> NodeAt(nl, p)],
          err |-> NilErr]

\* GetSources between RLock and RUnlock
GetSourcesBody(nl, ns, id) ==
    IF ~unsafeIdExist(nl, id)
    THEN [m |-> EmptyMap, err |-> ErrNotExist(id)]
    ELSE [m |-> IF HasKey(ns, id)
                THEN [p \in DOMAIN ns[id] |-> NodeAt(nl, p)]
                ELSE EmptyMap,
          err |-> NilErr]

\* GetTargets between RLock and RUnlock
GetTargetsBody(nl, nt, pid) ==
    IF ~unsafeIdExist(nl, pid)
    THEN [m |-> EmptyMap, err |-> ErrNotExist(pid)]
    ELSE [m |-> IF HasKey(nt, pid)
                THEN [p \in DOMAIN nt[pid] |-> NodeAt(nl, p)]
                ELSE EmptyMap,
          err |-> NilErr]

\* JSON: the statement that stores one weight in rs
JSONPut(rs, id, pid, wgt) ==
    IF HasKey(rs, String(id))
    THEN MapPut(rs, String(id), MapPut(rs[String(id)], String(id), wgt))
    ELSE MapPut(rs, String(id), MapPut(EmptyMap, String(pid), wgt))

\* ------------------------------------------------------------ the callers
Mutators == {"AddNode", "DeleteNode", "AddEdge", "ReplaceEdge", "DeleteEdge"}

Queries == {"GetNodeCount", "GetNode", "GetNodes", "GetWeight", "GetSources",
            "GetTargets", "JSON"}

Invocation(op, id, pid, wgt, nd) ==
    [BlankFrame EXCEPT !.op = op, !.id = id, !.pid = pid, !.wgt = wgt, !.nd = nd]

\* the calls a caller can make
Invocations ==
         {Invocation("Init", NoID, NoID, 0, NilNode)}
    \cup {Invocation("GetNodeCount", NoID, NoID, 0, NilNode)}
    \cup {Invocation("GetNodes", NoID, NoID, 0, NilNode)}
    \cup {Invocation("JSON", NoID, NoID, 0, NilNode)}
    \cup {Invocation("AddNode", NoID, NoID, 0, nd) : nd \in Nodes}
    \cup {Invocation(op, id, NoID, 0, NilNode) :
             op \in {"DeleteNode", "GetNode", "GetSources"}, id \in IDS}
    \cup {Invocation("GetTargets", NoID, pid, 0, NilNode) : pid \in IDS}
    \cup {Invocation(op, id, pid, 0, NilNode) :
             op \in {"DeleteEdge", "GetWeight"}, id \in IDS, pid \in IDS}
    \cup {Invocation(op, id, pid, w, NilNode) :
             op \in {"AddEdge", "ReplaceEdge"}, id \in IDS, pid \in IDS,
             w \in Weights}

\* the first statement of each method
FirstPc(op) ==
    IF op \in Mutators THEN "Lock"
    ELSE IF op = "Init" THEN "InitNodeList"
    ELSE "RLock"

\* ------------------------------------------------------- history (ghost)
EdgeAbsent(q) ==
    ~HasEdge(nodeSources, q[1], q[2]) /\ ~HasEdge(nodeTargets, q[2], q[1])

StoreEmpty ==
    nodeList = EmptyMap /\ nodeSources = EmptyMap /\ nodeTargets = EmptyMap

\* per pair: n and sum count the successful AddEdge calls, and add up their
\* weights, since the pair's edge was last absent (on: nothing else touched it)
Touches(f, q) ==
    \/ f.op \in {"ReplaceEdge", "DeleteEdge"} /\ q = <<f.id, f.pid>>
    \/ f.op = "DeleteNode" /\ f.id \in {q[1], q[2]}
    \/ f.op = "Init"

NoAdds == [on |-> TRUE, n |-> 0, sum |-> 0]

AddsAfter(f, q) ==
    IF f.op = "AddEdge" /\ f.ret = NilErr /\ q = <<f.id, f.pid>>
    THEN IF hist.adds[q].on
         THEN [on |-> TRUE, n |-> hist.adds[q].n + 1,
               sum |-> hist.adds[q].sum + f.wgt]
         ELSE hist.adds[q]
    ELSE IF EdgeAbsent(q) THEN NoAdds
    ELSE IF Touches(f, q) THEN [on |-> FALSE, n |-> 0, sum |-> 0]
    ELSE hist.adds[q]

\* IDs passed to AddNode since the store was empty, while only AddNode ran
AddedAfter(f) ==
    IF f.op = "AddNode"
    THEN IF hist.added.on
         THEN [on |-> TRUE, ids |-> hist.added.ids \cup {GetId(f.nd)}]
         ELSE hist.added
    ELSE IF StoreEmpty THEN [on |-> TRUE, ids |-> {}]
    ELSE IF f.op \in Mutators \cup {"Init"} THEN [on |-> FALSE, ids |-> {}]
    ELSE hist.added

\* the edges the successful calls have made: pair |-> weight
EdgesAfter(f) ==
    LET q == <<f.id, f.pid>>
        e == hist.edges
    IN  IF f.op = "AddEdge" /\ f.ret = NilErr
        THEN MapPut(e, q, IF HasKey(e, q) THEN e[q] + f.wgt ELSE f.wgt)
        ELSE IF f.op = "ReplaceEdge" /\ f.ret = NilErr THEN MapPut(e, q, f.wgt)
        ELSE IF f.op = "DeleteEdge" /\ f.ret = NilErr THEN MapDelete(e, q)
        ELSE IF f.op = "DeleteNode" /\ f.ret = TRUE
             THEN [r \in {x \in DOMAIN e : f.id \notin {x[1], x[2]}} |-> e[r]]
        ELSE IF f.op = "Init" THEN EmptyMap
        ELSE e

\* IDs of nodes DeleteNode removed together with an edge, not added again
PurgedAfter(f) ==
    IF /\ f.op = "DeleteNode" /\ f.ret = TRUE
       /\ \E y \in IDS : HasEdge(f.pre.ns, f.id, y) \/ HasEdge(f.pre.ns, y, f.id)
    THEN hist.purged \cup {f.id}
    ELSE IF f.op = "AddNode" /\ f.ret = TRUE THEN hist.purged \ {GetId(f.nd)}
    ELSE hist.purged

\* pairs whose edge of nonzero weight DeleteEdge removed, not made again
CutAfter(f) ==
    IF /\ f.op = "DeleteEdge" /\ f.ret = NilErr
       /\ HasEdge(f.pre.ns, f.id, f.pid)
       /\ f.pre.ns[f.id][f.pid] > 0
    THEN hist.cut \cup {<<f.id, f.pid>>}
    ELSE IF f.op \in {"AddEdge", "ReplaceEdge"} /\ f.ret = NilErr
         THEN hist.cut \ {<<f.id, f.pid>>}
    ELSE hist.cut

HistAfter(f) ==
    [adds |-> [q \in Pairs |-> AddsAfter(f, q)], added |-> AddedAfter(f),
     edges |-> EdgesAfter(f), purged |-> PurgedAfter(f), cut |-> CutAfter(f)]

\* ------------------------------------------------------------------ Init
\* NewGraph(): three empty maps, an unlocked mutex, every caller outside
Init ==
    /\ nodeList = EmptyMap
    /\ nodeSources = EmptyMap
    /\ nodeTargets = EmptyMap
    /\ mu = [w |-> NoWriter, held |-> FALSE, r |-> [c \in Callers |-> 0]]
    /\ pc = [c \in Callers |-> "idle"]
    /\ fr = [c \in Callers |-> BlankFrame]
    /\ hist = [adds |-> [q \in Pairs |-> NoAdds],
               added |-> [on |-> TRUE, ids |-> {}],
               edges |-> EmptyMap, purged |-> {}, cut |-> {}]
    /\ heap = NewHeap
    /\ kept = [c \in Callers |-> NoKept]
    /\ budget = MaxCalls

\* the same store, shared by NumCallers callers
InitConc ==
    /\ nodeList = EmptyMap
    /\ nodeSources = EmptyMap
    /\ nodeTargets = EmptyMap
    /\ mu = [w |-> NoWriter, held |-> FALSE, r |-> [c \in Callers |-> 0]]
    /\ pc = [c \in Callers |-> "idle"]
    /\ fr = [c \in Callers |-> BlankFrame]
    /\ hist = [adds |-> [q \in Pairs |-> NoAdds],
               added |-> [on |-> TRUE, ids |-> {}],
               edges |-> EmptyMap, purged |-> {}, cut |-> {}]
    /\ heap = NewHeap
    /\ kept = [c \in Callers |-> NoKept]
    /\ budget = MaxConcCalls

\* the same store, shared by NumCallers callers that store the node map
\* GetNodes returns
InitAlias ==
    /\ nodeList = EmptyMap
    /\ nodeSources = EmptyMap
    /\ nodeTargets = EmptyMap
    /\ mu = [w |-> NoWriter, held |-> FALSE, r |-> [c \in Callers |-> 0]]
    /\ pc = [c \in Callers |-> "idle"]
    /\ fr = [c \in Callers |-> BlankFrame]
    /\ hist = [adds |-> [q \in Pairs |-> NoAdds],
               added |-> [on |-> TRUE, ids |-> {}],
               edges |-> EmptyMap, purged |-> {}, cut |-> {}]
    /\ heap = NewHeap
    /\ kept = [c \in Callers |-> NoKept]
    /\ budget = MaxAliasCalls

\* the same store, used by one caller that stores the neighbor maps
\* GetSources and GetTargets return
InitKeep ==
    /\ nodeList = EmptyMap
    /\ nodeSources = EmptyMap
    /\ nodeTargets = EmptyMap
    /\ mu = [w |-> NoWriter, held |-> FALSE, r |-> [c \in Callers |-> 0]]
    /\ pc = [c \in Callers |-> "idle"]
    /\ fr = [c \in Callers |-> BlankFrame]
    /\ hist = [adds |-> [q \in Pairs |-> NoAdds],
               added |-> [on |-> TRUE, ids |-> {}],
               edges |-> EmptyMap, purged |-> {}, cut |-> {}]
    /\ heap = NewHeap
    /\ kept = [c \in Callers |-> NoKept]
    /\ budget = MaxKeepCalls

Goto(c, l) == pc' = [pc EXCEPT ![c] = l]

\* a caller enters one of the public methods; budget bounds the mutating calls
Call(c) ==
    /\ pc[c] = "idle"
    /\ \E inv \in Invocations :
          /\ inv.op \in Queries \/ budget > 0
          /\ fr' = [fr EXCEPT ![c] = inv]
          /\ Goto(c, FirstPc(inv.op))
          /\ budget' = IF inv.op \in Queries THEN budget ELSE budget - 1
    /\ UNCHANGED <<store, mu, hist, heap, kept>>

\* the method has returned to its caller
Return(c) ==
    /\ pc[c] = "Return"
    /\ Goto(c, "idle")
    /\ hist' = HistAfter(fr[c])
    /\ fr' = [fr EXCEPT ![c] = BlankFrame]
    /\ heap' = Collect(KeptRefs(kept) \cup FrameRefs(Callers \ {c}))
    /\ UNCHANGED <<store, mu, kept, budget>>

\* GetNodes has returned and the caller stores the map it got
KeepNodes(c) ==
    /\ pc[c] = "Return"
    /\ fr[c].op = "GetNodes"
    /\ kept' = [kept EXCEPT ![c].nodes = [ref |-> fr[c].ret, seen |-> Deref(fr[c].ret)]]
    /\ heap' = Collect(KeptRefs(kept') \cup FrameRefs(Callers \ {c}))
    /\ Goto(c, "idle")
    /\ hist' = HistAfter(fr[c])
    /\ fr' = [fr EXCEPT ![c] = BlankFrame]
    /\ UNCHANGED <<store, mu, budget>>

\* GetSources or GetTargets has returned a map and the caller stores it
KeepNeighbors(c) ==
    /\ pc[c] = "Return"
    /\ fr[c].op \in {"GetSources", "GetTargets"}
    /\ fr[c].ret.err = NilErr
    /\ kept' = [kept EXCEPT ![c].nbrs = [ref |-> fr[c].ret.m, seen |-> Deref(fr[c].ret.m)]]
    /\ heap' = Collect(KeptRefs(kept') \cup FrameRefs(Callers \ {c}))
    /\ Goto(c, "idle")
    /\ hist' = HistAfter(fr[c])
    /\ fr' = [fr EXCEPT ![c] = BlankFrame]
    /\ UNCHANGED <<store, mu, budget>>

\* --------------------------------------------------------- sync.RWMutex
Readers == {c \in Callers : mu.r[c] > 0}

\* g.mu.Lock(): take the writer mutex and announce the writer (one atomic
\* add); the lock is held at once when no reader is active
Lock(c) ==
    /\ pc[c] = "Lock"
    /\ mu.w = NoWriter
    /\ IF Readers = {}
       THEN /\ mu' = [mu EXCEPT !.w = c, !.held = TRUE]
            /\ fr' = [fr EXCEPT ![c].pre = Snapshot]
            /\ Goto(c, fr[c].op)
       ELSE /\ mu' = [mu EXCEPT !.w = c]
            /\ Goto(c, "LockWait")
            /\ UNCHANGED fr
    /\ UNCHANGED <<store, hist, heap, kept, budget>>

\* g.mu.Lock(), the wait: until the active readers have left
LockAcquire(c) ==
    /\ pc[c] = "LockWait"
    /\ Readers = {}
    /\ mu' = [mu EXCEPT !.held = TRUE]
    /\ fr' = [fr EXCEPT ![c].pre = Snapshot]
    /\ Goto(c, fr[c].op)
    /\ UNCHANGED <<store, hist, heap, kept, budget>>

\* defer g.mu.Unlock()
Unlock(c) ==
    /\ pc[c] = "Unlock"
    /\ mu' = [mu EXCEPT !.w = NoWriter, !.held = FALSE]
    /\ Goto(c, "Return")
    /\ UNCHANGED <<store, fr, hist, heap, kept, budget>>

RLockPcs == {"RLock", "JSONGetSourcesRLock", "JSONGetWeightRLock"}

AfterRLock(c) ==
    IF pc[c] = "RLock" THEN fr[c].op
    ELSE IF pc[c] = "JSONGetSourcesRLock" THEN "JSONGetSources"
    ELSE "JSONGetWeight"

\* mutant: a reader is admitted although a writer holds or waits for the lock
RLockIgnoresWriter(c) ==
    /\ pc[c] \in RLockPcs
    /\ mu' = [mu EXCEPT !.r[c] = @ + 1]
    /\ fr' = IF pc[c] = "RLock" THEN [fr EXCEPT ![c].pre = Snapshot] ELSE fr
    /\ Goto(c, AfterRLock(c))
    /\ UNCHANGED <<store, hist, heap, kept, budget>>

\* g.mu.RLock(): blocks while a writer holds or waits for the lock
RLock(c) ==
    /\ pc[c] \in RLockPcs
    /\ mu.w = NoWriter
    /\ mu' = [mu EXCEPT !.r[c] = @ + 1]
    /\ fr' = IF pc[c] = "RLock" THEN [fr EXCEPT ![c].pre = Snapshot] ELSE fr
    /\ Goto(c, AfterRLock(c))
    /\ UNCHANGED <<store, hist, heap, kept, budget>>

RUnlockPcs == {"RUnlock", "JSONGetSourcesRUnlock", "JSONGetWeightRUnlock"}

AfterRUnlock(c) ==
    IF pc[c] = "RUnlock" THEN "Return"
    ELSE IF pc[c] = "JSONGetSourcesRUnlock" THEN "JSONPidNext"
    ELSE "JSONPut"

\* defer g.mu.RUnlock()
RUnlock(c) ==
    /\ pc[c] \in RUnlockPcs
    /\ mu' = [mu EXCEPT !.r[c] = @ - 1]
    /\ Goto(c, AfterRUnlock(c))
    /\ UNCHANGED <<store, fr, hist, heap, kept, budget>>

SetRet(c, v) == fr' = [fr EXCEPT ![c].ret = v]

\* --------------------------------------------------------------- mutators
\* graph.Init: g.nodeList = make(...); taken without the lock
InitNodeList(c) ==
    /\ pc[c] = "InitNodeList"
    /\ nodeList' = EmptyMap
    /\ fr' = [fr EXCEPT ![c].pre = Snapshot]
    /\ heap' = [ref |-> NewRef(LiveRefs \cup DOMAIN heap.objs),
                objs |-> IF heap.ref \in LiveRefs
                         THEN MapPut(heap.objs, heap.ref, nodeList)
                         ELSE heap.objs,
                before |-> LiveRefs]
    /\ Goto(c, "InitSources")
    /\ UNCHANGED <<nodeSources, nodeTargets, mu, hist, kept, budget>>

\* mutant: Init leaves nodeSources as it is
InitSourcesKeep(c) ==
    /\ pc[c] = "InitSources"
    /\ Goto(c, "InitTargets")
    /\ UNCHANGED <<nodeList, nodeSources, nodeTargets, mu, fr, hist, heap, kept, budget>>

\* graph.Init: g.nodeSources = make(...)
InitSources(c) ==
    /\ pc[c] = "InitSources"
    /\ nodeSources' = EmptyMap
    /\ Goto(c, "InitTargets")
    /\ UNCHANGED <<nodeList, nodeTargets, mu, fr, hist, heap, kept, budget>>

\* graph.Init: g.nodeTargets = make(...), then return
InitTargets(c) ==
    /\ pc[c] = "InitTargets"
    /\ nodeTargets' = EmptyMap
    /\ Goto(c, "Return")
    /\ UNCHANGED <<nodeList, nodeSources, mu, fr, hist, heap, kept, budget>>

\* mutant: the node is stored and true returned without the existence check
AddNodeNoCheck(c) ==
    /\ pc[c] = "AddNode"
    /\ nodeList' = AddNodeList(nodeList, fr[c].nd)
    /\ SetRet(c, TRUE)
    /\ Goto(c, "Unlock")
    /\ UNCHANGED <<nodeSources, nodeTargets, mu, hist, heap, kept, budget>>

\* graph.AddNode between Lock and Unlock
AddNode(c) ==
    /\ pc[c] = "AddNode"
    /\ IF unsafeIdExist(nodeList, GetId(fr[c].nd))
       THEN /\ SetRet(c, FALSE)
            /\ UNCHANGED nodeList
       ELSE /\ nodeList' = AddNodeList(nodeList, fr[c].nd)
            /\ SetRet(c, TRUE)
    /\ Goto(c, "Unlock")
    /\ UNCHANGED <<nodeSources, nodeTargets, mu, hist, heap, kept, budget>>

\* graph.DeleteNode: the existence check and delete(g.nodeList, id)
DeleteNode(c) ==
    /\ pc[c] = "DeleteNode"
    /\ IF ~unsafeIdExist(nodeList, fr[c].id)
       THEN /\ SetRet(c, FALSE)
            /\ Goto(c, "Unlock")
            /\ UNCHANGED nodeList
       ELSE /\ nodeList' = MapDelete(nodeList, fr[c].id)
            /\ Goto(c, "DeleteNodeT")
            /\ UNCHANGED fr
    /\ UNCHANGED <<nodeSources, nodeTargets, mu, hist, heap, kept, budget>>

\* graph.DeleteNode: purge id from nodeTargets
DeleteNodeT(c) ==
    /\ pc[c] = "DeleteNodeT"
    /\ nodeTargets' = DeleteNodeTargets(nodeTargets, fr[c].id)
    /\ Goto(c, "DeleteNodeS")
    /\ UNCHANGED <<nodeList, nodeSources, mu, fr, hist, heap, kept, budget>>

\* graph.DeleteNode: purge id from nodeSources, return true
DeleteNodeS(c) ==
    /\ pc[c] = "DeleteNodeS"
    /\ nodeSources' = DeleteNodeSources(nodeSources, fr[c].id)
    /\ SetRet(c, TRUE)
    /\ Goto(c, "Unlock")
    /\ UNCHANGED <<nodeList, nodeTargets, mu, hist, heap, kept, budget>>

\* the endpoint checks of AddEdge, ReplaceEdge and DeleteEdge
EdgeCheck(c, op) ==
    /\ pc[c] = op
    /\ IF CheckEndpoints(nodeList, fr[c].id, fr[c].pid) # NilErr
       THEN /\ SetRet(c, CheckEndpoints(nodeList, fr[c].id, fr[c].pid))
            /\ Goto(c, "Unlock")
       ELSE /\ Goto(c, op \o "T")
            /\ UNCHANGED fr
    /\ UNCHANGED <<store, mu, hist, heap, kept, budget>>

\* graph.AddEdge: the two existence checks
AddEdge(c) == EdgeCheck(c, "AddEdge")

\* graph.AddEdge: update of g.nodeTargets[pid][id]
AddEdgeT(c) ==
    /\ pc[c] = "AddEdgeT"
    /\ nodeTargets' = AddEdgeTargets(nodeTargets, fr[c].id, fr[c].pid, fr[c].wgt)
    /\ Goto(c, "AddEdgeS")
    /\ UNCHANGED <<nodeList, nodeSources, mu, fr, hist, heap, kept, budget>>

\* graph.AddEdge: update of g.nodeSources[id][pid], return nil
AddEdgeS(c) ==
    /\ pc[c] = "AddEdgeS"
    /\ nodeSources' = AddEdgeSources(nodeSources, fr[c].id, fr[c].pid, fr[c].wgt)
    /\ SetRet(c, NilErr)
    /\ Goto(c, "Unlock")
    /\ UNCHANGED <<nodeList, nodeTargets, mu, hist, heap, kept, budget>>

\* graph.ReplaceEdge: the two existence checks
ReplaceEdge(c) == EdgeCheck(c, "ReplaceEdge")

\* graph.ReplaceEdge: overwrite of g.nodeTargets[pid][id]
ReplaceEdgeT(c) ==
    /\ pc[c] = "ReplaceEdgeT"
    /\ nodeTargets' =
          ReplaceEdgeTargets(nodeTargets, fr[c].id, fr[c].pid, fr[c].wgt)
    /\ Goto(c, "ReplaceEdgeS")
    /\ UNCHANGED <<nodeList, nodeSources, mu, fr, hist, heap, kept, budget>>

\* graph.ReplaceEdge: overwrite of g.nodeSources[id][pid], return nil
ReplaceEdgeS(c) ==
    /\ pc[c] = "ReplaceEdgeS"
    /\ nodeSources' =
          ReplaceEdgeSources(nodeSources, fr[c].id, fr[c].pid, fr[c].wgt)
    /\ SetRet(c, NilErr)
    /\ Goto(c, "Unlock")
    /\ UNCHANGED <<nodeList, nodeTargets, mu, hist, heap, kept, budget>>

\* graph.DeleteEdge: the two existence checks
DeleteEdge(c) == EdgeCheck(c, "DeleteEdge")

\* graph.DeleteEdge: delete(g.nodeTargets[pid], id)
DeleteEdgeT(c) ==
    /\ pc[c] = "DeleteEdgeT"
    /\ nodeTargets' = DeleteEdgeTargets(nodeTargets, fr[c].id, fr[c].pid)
    /\ Goto(c, "DeleteEdgeS")
    /\ UNCHANGED <<nodeList, nodeSources, mu, fr, hist, heap, kept, budget>>

\* graph.DeleteEdge: delete(g.nodeSources[id], pid), return nil
DeleteEdgeS(c) ==
    /\ pc[c] = "DeleteEdgeS"
    /\ nodeSources' = DeleteEdgeSources(nodeSources, fr[c].id, fr[c].pid)
    /\ SetRet(c, NilErr)
    /\ Goto(c, "Unlock")
    /\ UNCHANGED <<nodeList, nodeTargets, mu, hist, heap, kept, budget>>

\* ---------------------------------------------------------------- queries
Answer(c, op, v) ==
    /\ pc[c] = op
    /\ SetRet(c, v)
    /\ Goto(c, "RUnlock")
    /\ UNCHANGED <<store, mu, hist, heap, kept, budget>>

\* graph.GetNodeCount: len(g.nodeList)
GetNodeCount(c) == Answer(c, "GetNodeCount", GetNodeCountBody(nodeList))

\* graph.GetNode: g.nodeList[id]
GetNode(c) == Answer(c, "GetNode", NodeAt(nodeList, fr[c].id))

\* mutant: GetNodes returns a new map holding what g.nodeList holds
GetNodesCopy(c) ==
    LET n == NewRef(LiveRefs \cup DOMAIN heap.objs \cup {heap.ref}) IN
    /\ pc[c] = "GetNodes"
    /\ SetRet(c, n)
    /\ heap' = [heap EXCEPT !.objs = MapPut(@, n, nodeList)]
    /\ Goto(c, "RUnlock")
    /\ UNCHANGED <<store, mu, hist, kept, budget>>

\* graph.GetNodes: g.nodeList, the map object itself
GetNodes(c) == Answer(c, "GetNodes", heap.ref)

\* graph.GetWeight
GetWeight(c) ==
    Answer(c, "GetWeight", GetWeightBody(nodeList, nodeSources, fr[c].id, fr[c].pid))

\* mutant: the map returned is g.nodeList itself
AnswerMapNodeList(c, op, r) ==
    /\ pc[c] = op
    /\ IF r.err # NilErr
       THEN SetRet(c, [m |-> NoRef, err |-> r.err])
       ELSE SetRet(c, [m |-> heap.ref, err |-> NilErr])
    /\ Goto(c, "RUnlock")
    /\ UNCHANGED <<store, mu, hist, heap, kept, budget>>

\* return s, nil with s := make(map[ID]Node) filled as r.m, or nil, err
AnswerMap(c, op, r) ==
    LET n == NewRef(LiveRefs \cup DOMAIN heap.objs \cup {heap.ref}) IN
    /\ pc[c] = op
    /\ IF r.err # NilErr
       THEN /\ SetRet(c, [m |-> NoRef, err |-> r.err])
            /\ UNCHANGED heap
       ELSE /\ SetRet(c, [m |-> n, err |-> NilErr])
            /\ heap' = [heap EXCEPT !.objs = MapPut(@, n, r.m)]
    /\ Goto(c, "RUnlock")
    /\ UNCHANGED <<store, mu, hist, kept, budget>>

\* graph.GetSources
GetSources(c) ==
    AnswerMap(c, "GetSources", GetSourcesBody(nodeList, nodeSources, fr[c].id))

\* graph.GetTargets
GetTargets(c) ==
    AnswerMap(c, "GetTargets", GetTargetsBody(nodeList, nodeTargets, fr[c].pid))

\* ------------------------------------------------------------------- JSON
\* graph.JSON: rs := make(...); start of the range over g.nodeList
JSON(c) ==
    /\ pc[c] = "JSON"
    /\ fr' = [fr EXCEPT ![c].rs = EmptyMap, ![c].todo = DOMAIN nodeList]
    /\ Goto(c, "JSONNext")
    /\ UNCHANGED <<store, mu, hist, heap, kept, budget>>

\* graph.JSON: next id of the range (any order), or Marshal(rs) at its end
JSONNext(c) ==
    /\ pc[c] = "JSONNext"
    /\ IF fr[c].todo = {}
       THEN /\ SetRet(c, [json |-> fr[c].rs, err |-> NilErr])
            /\ Goto(c, "RUnlock")
       ELSE /\ \E id \in fr[c].todo :
                  fr' = [fr EXCEPT ![c].cur = id, ![c].todo = @ \ {id}]
            /\ Goto(c, "JSONGetSourcesRLock")
    /\ UNCHANGED <<store, mu, hist, heap, kept, budget>>

\* graph.JSON: smap, err := g.GetSources(id), inside the nested read lock
JSONGetSources(c) ==
    /\ pc[c] = "JSONGetSources"
    /\ fr' = [fr EXCEPT ![c].ptodo =
                 DOMAIN GetSourcesBody(nodeList, nodeSources, fr[c].cur).m]
    /\ Goto(c, "JSONGetSourcesRUnlock")
    /\ UNCHANGED <<store, mu, hist, heap, kept, budget>>

\* graph.JSON: next pid of the range over smap (any order)
JSONPidNext(c) ==
    /\ pc[c] = "JSONPidNext"
    /\ IF fr[c].ptodo = {}
       THEN /\ Goto(c, "JSONNext")
            /\ UNCHANGED fr
       ELSE /\ \E pid \in fr[c].ptodo :
                  fr' = [fr EXCEPT ![c].cpid = pid, ![c].ptodo = @ \ {pid}]
            /\ Goto(c, "JSONGetWeightRLock")
    /\ UNCHANGED <<store, mu, hist, heap, kept, budget>>

\* graph.JSON: wgt, err := g.GetWeight(id, pid), inside the nested read lock
JSONGetWeight(c) ==
    /\ pc[c] = "JSONGetWeight"
    /\ fr' = [fr EXCEPT ![c].gw =
                 GetWeightBody(nodeList, nodeSources, fr[c].cur, fr[c].cpid)]
    /\ Goto(c, "JSONGetWeightRUnlock")
    /\ UNCHANGED <<store, mu, hist, heap, kept, budget>>

\* graph.JSON: if err == nil, store wgt in rs
JSONStore(c) ==
    /\ pc[c] = "JSONPut"
    /\ fr' = IF fr[c].gw.err = NilErr
             THEN [fr EXCEPT ![c].rs =
                      JSONPut(fr[c].rs, fr[c].cur, fr[c].cpid, fr[c].gw.w)]
             ELSE fr
    /\ Goto(c, "JSONPidNext")
    /\ UNCHANGED <<store, mu, hist, heap, kept, budget>>

\* ------------------------------------------------------------------- Next
SeqStep(c) ==
    \/ Call(c)
    \/ Return(c)
    \/ Lock(c)
    \/ Unlock(c)
    \/ RLock(c)
    \/ RUnlock(c)
    \/ InitNodeList(c)
    \/ InitSources(c)
    \/ InitTargets(c)
    \/ AddNode(c)
    \/ DeleteNode(c)
    \/ DeleteNodeT(c)
    \/ DeleteNodeS(c)
    \/ AddEdge(c)
    \/ AddEdgeT(c)
    \/ AddEdgeS(c)
    \/ ReplaceEdge(c)
    \/ ReplaceEdgeT(c)
    \/ ReplaceEdgeS(c)
    \/ DeleteEdge(c)
    \/ DeleteEdgeT(c)
    \/ DeleteEdgeS(c)
    \/ GetNodeCount(c)
    \/ GetNode(c)
    \/ GetNodes(c)
    \/ GetWeight(c)
    \/ GetSources(c)
    \/ GetTargets(c)
    \/ JSON(c)
    \/ JSONNext(c)
    \/ JSONGetSources(c)
    \/ JSONPidNext(c)
    \/ JSONGetWeight(c)
    \/ JSONStore(c)

\* one caller: a sequential sequence of operations (Lock never has to wait)
Next == \E c \in SeqCallers : SeqStep(c)

Spec == Init /\ [][Next]_vars

\* several callers, interleaved statement by statement
NextConc == \E c \in Callers : SeqStep(c) \/ LockAcquire(c)

SpecConc == InitConc /\ [][NextConc]_vars

\* several callers that may keep the map GetNodes returned to them
NextAlias == \E c \in Callers : SeqStep(c) \/ LockAcquire(c) \/ KeepNodes(c)

SpecAlias == InitAlias /\ [][NextAlias]_vars

\* one caller that may keep the map GetSources or GetTargets returned to it
NextKeep == \E c \in SeqCallers : SeqStep(c) \/ KeepNeighbors(c)

SpecKeep == InitKeep /\ [][NextKeep]_vars

\* ------------------------------------------------------------- properties
\* no method is running (each caller is outside, or has just returned)
Quiescent == \A c \in Callers : pc[c] \in {"idle", "Return"}

\* caller c has just returned from method op
Returned(c, op) == pc[c] = "Return" /\ fr[c].op = op

Mirror(ns, nt) ==
    \A a \in IDS, b \in IDS :
        /\ HasEdge(ns, a, b) <=> HasEdge(nt, b, a)
        /\ HasEdge(ns, a, b) /\ HasEdge(nt, b, a) => ns[a][b] = nt[b][a]

\* every ID used by an index, as outer or as nested key
IndexIDs(m) == (DOMAIN m) \cup UNION {DOMAIN m[k] : k \in DOMAIN m}

NoEdges(ns, nt) == \A a \in IDS, b \in IDS : ~HasEdge(ns, a, b) /\ ~HasEdge(nt, a, b)

\* C1: whenever no method is running in sequential use, nodeSources[a][b]
\* exists iff nodeTargets[b][a] exists, and then both hold the same weight.
C1_IndexMirror == Quiescent => Mirror(nodeSources, nodeTargets)

\* C1 witness: AddEdge has returned after adding to an edge that existed.
C1_Witness ==
    \E c \in SeqCallers :
        /\ Returned(c, "AddEdge")
        /\ fr[c].ret = NilErr
        /\ HasEdge(fr[c].pre.ns, fr[c].id, fr[c].pid)
        /\ nodeSources[fr[c].id][fr[c].pid] > fr[c].pre.ns[fr[c].id][fr[c].pid]

\* C2: whenever no method is running in sequential use, every ID that is an
\* outer or nested key of nodeSources or nodeTargets is a key of nodeList.
C2_NoDangling ==
    Quiescent =>
        IndexIDs(nodeSources) \cup IndexIDs(nodeTargets) \subseteq DOMAIN nodeList

\* C2 witness: DeleteNode has returned true for a node that had an edge with
\* another node, which is still present.
C2_Witness ==
    \E c \in SeqCallers :
        /\ Returned(c, "DeleteNode")
        /\ fr[c].ret = TRUE
        /\ \E y \in DOMAIN nodeList :
              HasEdge(fr[c].pre.ns, y, fr[c].id) \/ HasEdge(fr[c].pre.ns, fr[c].id, y)

\* C3 as claimed: after AddEdge(s, t, w) succeeds on distinct nodes of a store
\* without edges, GetTargets(s) contains t and GetSources(t) contains s.
C3_FirstArgIsSource ==
    \A c \in SeqCallers :
        /\ Returned(c, "AddEdge")
        /\ fr[c].ret = NilErr
        /\ fr[c].id # fr[c].pid
        /\ NoEdges(fr[c].pre.ns, fr[c].pre.nt)
        => /\ fr[c].pid \in DOMAIN GetTargetsBody(nodeList, nodeTargets, fr[c].id).m
           /\ fr[c].id \in DOMAIN GetSourcesBody(nodeList, nodeSources, fr[c].pid).m

\* C3 amended: AddEdge takes the target as its first argument and the source
\* as its second: after AddEdge(a, b, w) succeeds on distinct nodes of a store
\* without edges, GetSources(a) contains b and GetTargets(b) contains a.
C3_FirstArgIsTarget ==
    \A c \in SeqCallers :
        /\ Returned(c, "AddEdge")
        /\ fr[c].ret = NilErr
        /\ fr[c].id # fr[c].pid
        /\ NoEdges(fr[c].pre.ns, fr[c].pre.nt)
        => /\ fr[c].pid \in DOMAIN GetSourcesBody(nodeList, nodeSources, fr[c].id).m
           /\ fr[c].id \in DOMAIN GetTargetsBody(nodeList, nodeTargets, fr[c].pid).m
           /\ GetSourcesBody(nodeList, nodeSources, fr[c].id).err = NilErr
           /\ GetTargetsBody(nodeList, nodeTargets, fr[c].pid).err = NilErr

\* C3 witness: AddEdge has succeeded on two distinct nodes of a store that
\* held no edge.
C3_Witness ==
    \E c \in SeqCallers :
        /\ Returned(c, "AddEdge")
        /\ fr[c].ret = NilErr
        /\ fr[c].id # fr[c].pid
        /\ NoEdges(fr[c].pre.ns, fr[c].pre.nt)
        /\ HasEdge(nodeSources, fr[c].id, fr[c].pid)

\* C4: in sequential use, after k >= 1 successful AddEdge(u, v, w_i) calls on
\* an edge that was absent (nothing else touching it), GetWeight(u, v) returns
\* w_1 + ... + w_k; and right after a successful ReplaceEdge(u, v, w),
\* GetWeight(u, v) returns w.
C4_AccumulateVsReplace ==
    /\ (\A c \in Callers : pc[c] = "idle") =>
          \A q \in Pairs :
              hist.adds[q].on /\ hist.adds[q].n > 0 =>
                  GetWeightBody(nodeList, nodeSources, q[1], q[2])
                      = [w |-> hist.adds[q].sum, err |-> NilErr]
    /\ \A c \in SeqCallers :
          Returned(c, "ReplaceEdge") /\ fr[c].ret = NilErr =>
              GetWeightBody(nodeList, nodeSources, fr[c].id, fr[c].pid)
                  = [w |-> fr[c].wgt, err |-> NilErr]

\* C4 witness: ReplaceEdge has returned for an edge that two AddEdge calls had
\* accumulated to a weight other than the new one.
C4_Witness ==
    \E c \in SeqCallers :
        /\ Returned(c, "ReplaceEdge")
        /\ fr[c].ret = NilErr
        /\ hist.adds[<<fr[c].id, fr[c].pid>>].on
        /\ hist.adds[<<fr[c].id, fr[c].pid>>].n >= 2
        /\ hist.adds[<<fr[c].id, fr[c].pid>>].sum # fr[c].wgt
        /\ fr[c].pre.ns[fr[c].id][fr[c].pid] = hist.adds[<<fr[c].id, fr[c].pid>>].sum

IsErrNotExist(e) == Len(e) = 2 /\ e[1] = "does not exist in graph"

\* C5: after DeleteNode(x) has returned true (sequential use), x is not in the
\* node map, GetNode(x) is nil, GetWeight with x as either argument fails with
\* a node-not-found error, no remaining node has x among its sources or
\* targets, and neither index mentions x.
C5_DeleteNodeCascade ==
    \A c \in SeqCallers :
        Returned(c, "DeleteNode") /\ fr[c].ret = TRUE =>
            LET x == fr[c].id IN
            /\ ~HasKey(nodeList, x)
            /\ NodeAt(nodeList, x) = NilNode
            /\ \A y \in IDS :
                  /\ IsErrNotExist(GetWeightBody(nodeList, nodeSources, x, y).err)
                  /\ IsErrNotExist(GetWeightBody(nodeList, nodeSources, y, x).err)
            /\ \A y \in DOMAIN nodeList :
                  /\ x \notin DOMAIN GetSourcesBody(nodeList, nodeSources, y).m
                  /\ x \notin DOMAIN GetTargetsBody(nodeList, nodeTargets, y).m
            /\ x \notin IndexIDs(nodeSources) \cup IndexIDs(nodeTargets)

\* C5 witness: DeleteNode has returned true for a node that was a neighbor of
\* a node that is still present.
C5_Witness ==
    \E c \in SeqCallers :
        /\ Returned(c, "DeleteNode")
        /\ fr[c].ret = TRUE
        /\ \E y \in DOMAIN nodeList :
              \/ fr[c].id \in DOMAIN GetSourcesBody(fr[c].pre.nl, fr[c].pre.ns, y).m
              \/ fr[c].id \in DOMAIN GetTargetsBody(fr[c].pre.nl, fr[c].pre.nt, y).m

WritePcs ==
    {"InitNodeList", "InitSources", "InitTargets", "AddNode", "DeleteNode",
     "DeleteNodeT", "DeleteNodeS", "AddEdgeT", "AddEdgeS", "ReplaceEdgeT",
     "ReplaceEdgeS", "DeleteEdgeT", "DeleteEdgeS"}

HoldsShared(c) == mu.r[c] > 0

HoldsExclusive(c) == mu.w = c /\ mu.held

\* C6: no caller is about to write the store's maps while another caller
\* holds the shared or the exclusive lock.
C6_MutatorsExclusive ==
    \A c \in Callers, d \in Callers :
        c # d /\ pc[c] \in WritePcs => ~HoldsShared(d) /\ ~HoldsExclusive(d)

\* the caller waits for the lock and cannot be granted it in this state
Blocked(c) ==
    \/ pc[c] = "Lock" /\ mu.w # NoWriter
    \/ pc[c] = "LockWait" /\ Readers # {}
    \/ pc[c] \in RLockPcs /\ mu.w # NoWriter

\* C7: JSON never waits for the shared lock while holding it, and no state is
\* reached in which every caller is blocked.
C7_JSONNoDeadlock ==
    /\ \A c \in Callers :
          fr[c].op = "JSON" /\ HoldsShared(c) => ~Blocked(c)
    /\ \E c \in Callers : ~Blocked(c)

\* the statements of the queries that read the maps
QueryReadPcs ==
    {"GetNodeCount", "GetNode", "GetNodes", "GetWeight", "GetSources",
     "GetTargets", "JSON", "JSONNext", "JSONGetSources", "JSONPidNext",
     "JSONGetWeight", "JSONPut"}

\* DeleteNode has removed the node from nodeList and not yet finished
MidCascade(c) == pc[c] \in {"DeleteNodeT", "DeleteNodeS"}

\* C9: while a DeleteNode is between its first and its last write, no query of
\* another caller is at a statement that reads the maps, nor holds the shared
\* lock: a query reads the state before or after the whole cascade.
C9_DeleteNodeAtomic ==
    \A c \in Callers, d \in Callers :
        c # d /\ MidCascade(c) =>
            /\ pc[d] \notin QueryReadPcs
            /\ pc[d] \notin RUnlockPcs
            /\ ~HoldsShared(d)

\* C9 witness: a DeleteNode is half done (the node is gone from nodeList, an
\* edge of it is still in the indices) while another caller's query waits.
C9_Witness ==
    \E c \in Callers, d \in Callers :
        /\ c # d
        /\ MidCascade(c)
        /\ fr[c].id \in IndexIDs(nodeSources) \cup IndexIDs(nodeTargets)
        /\ ~HasKey(nodeList, fr[c].id)
        /\ pc[d] = "RLock"
        /\ fr[d].op \in {"GetNode", "GetNodeCount", "GetWeight", "GetSources",
                         "GetTargets"}

\* the ID whose string identity is str
IDOf(str) == CHOOSE id \in IDS : String(id) = str

\* the intended serialization: one entry per node with an outgoing edge,
\* mapping each neighbor's string identity to the weight of the edge
IntendedJSON(nl, ns) ==
    LET from == {u \in DOMAIN nl : HasKey(ns, u) /\ DOMAIN ns[u] # {}}
    IN  [us \in {String(u) : u \in from} |->
            [vs \in {String(v) : v \in DOMAIN ns[IDOf(us)]} |->
                ns[IDOf(us)][IDOf(vs)]]]

\* C8: the mapping JSON() returns has, for every node u with an outgoing edge,
\* an entry keyed by u whose value maps each neighbor v to the weight of the
\* edge u -> v, and has no other entries.
C8_JSONContent ==
    \A c \in SeqCallers :
        Returned(c, "JSON") =>
            /\ fr[c].ret.err = NilErr
            /\ fr[c].ret.json = IntendedJSON(nodeList, nodeSources)

\* --------------------------------------------------------- error handling
EdgeMutators == {"AddEdge", "ReplaceEdge", "DeleteEdge"}

\* an endpoint of the call was absent from the node map when it started
EndpointMissing(f) == ~HasKey(f.pre.nl, f.id) \/ ~HasKey(f.pre.nl, f.pid)

\* C11: in sequential use, AddEdge, ReplaceEdge, DeleteEdge and GetWeight with
\* an absent endpoint, and GetSources / GetTargets of an absent ID, return a
\* node-not-found error and leave the three maps as they were; DeleteNode of
\* an absent ID returns false and leaves them as they were.
C11_MissingEndpointNoEffect ==
    \A c \in SeqCallers :
        /\ pc[c] = "Return" /\ fr[c].op \in EdgeMutators /\ EndpointMissing(fr[c])
              => IsErrNotExist(fr[c].ret) /\ Snapshot = fr[c].pre
        /\ Returned(c, "GetWeight") /\ EndpointMissing(fr[c])
              => IsErrNotExist(fr[c].ret.err) /\ Snapshot = fr[c].pre
        /\ Returned(c, "GetSources") /\ ~HasKey(fr[c].pre.nl, fr[c].id)
              => IsErrNotExist(fr[c].ret.err) /\ Snapshot = fr[c].pre
        /\ Returned(c, "GetTargets") /\ ~HasKey(fr[c].pre.nl, fr[c].pid)
              => IsErrNotExist(fr[c].ret.err) /\ Snapshot = fr[c].pre
        /\ Returned(c, "DeleteNode") /\ ~HasKey(fr[c].pre.nl, fr[c].id)
              => fr[c].ret = FALSE /\ Snapshot = fr[c].pre

\* C11 witness: AddEdge has returned an error because only its second
\* endpoint was absent, in a store that holds an edge.
C11_Witness ==
    \E c \in SeqCallers :
        /\ Returned(c, "AddEdge")
        /\ HasKey(fr[c].pre.nl, fr[c].id)
        /\ ~HasKey(fr[c].pre.nl, fr[c].pid)
        /\ fr[c].ret # NilErr
        /\ ~NoEdges(nodeSources, nodeTargets)

IsErrNoEdge(e) == Len(e) = 3 /\ e[1] = "there is no edge from"

\* C12: in sequential use, GetWeight(u, v) on two present nodes returns the
\* no-such-edge error exactly when the calls so far have left no edge for the
\* ordered pair (u, v), and else that edge's weight with no error; the
\* no-such-edge error is not returned when an endpoint is missing, nor by any
\* other method.
C12_GetWeightOutcome ==
    \A c \in SeqCallers :
        /\ Returned(c, "GetWeight") /\ ~EndpointMissing(fr[c]) =>
              LET q == <<fr[c].id, fr[c].pid>> IN
              /\ fr[c].ret.err = ErrNoEdge(fr[c].id, fr[c].pid)
                    <=> ~HasKey(hist.edges, q)
              /\ HasKey(hist.edges, q) =>
                    fr[c].ret = [w |-> hist.edges[q], err |-> NilErr]
        /\ Returned(c, "GetWeight") /\ EndpointMissing(fr[c]) =>
              ~IsErrNoEdge(fr[c].ret.err)
        /\ pc[c] = "Return" /\ fr[c].op \in EdgeMutators => ~IsErrNoEdge(fr[c].ret)
        /\ pc[c] = "Return" /\ fr[c].op \in {"GetSources", "GetTargets", "JSON"} =>
              ~IsErrNoEdge(fr[c].ret.err)

\* C12 witness: GetWeight(u, v) has returned no-such-edge for two distinct
\* present nodes although the edge of the reverse pair (v, u) exists.
C12_Witness ==
    \E c \in SeqCallers :
        /\ Returned(c, "GetWeight")
        /\ ~EndpointMissing(fr[c])
        /\ fr[c].id # fr[c].pid
        /\ IsErrNoEdge(fr[c].ret.err)
        /\ HasKey(hist.edges, <<fr[c].pid, fr[c].id>>)

\* C13: in sequential use, DeleteEdge(u, v) on two present nodes returns no
\* error; afterwards neither index holds the pair's edge and GetWeight(u, v)
\* would fail with no-such-edge; when the edge was in neither index before,
\* the node map and both indices are as they were.
C13_DeleteEdge ==
    \A c \in SeqCallers :
        Returned(c, "DeleteEdge") /\ ~EndpointMissing(fr[c]) =>
            /\ fr[c].ret = NilErr
            /\ EdgeAbsent(<<fr[c].id, fr[c].pid>>)
            /\ GetWeightBody(nodeList, nodeSources, fr[c].id, fr[c].pid).err
                  = ErrNoEdge(fr[c].id, fr[c].pid)
            /\ (~HasEdge(fr[c].pre.ns, fr[c].id, fr[c].pid)
                  /\ ~HasEdge(fr[c].pre.nt, fr[c].pid, fr[c].id))
                  => Snapshot = fr[c].pre

\* C13 witness: DeleteEdge has returned for an edge that both indices held.
C13_Witness ==
    \E c \in SeqCallers :
        /\ Returned(c, "DeleteEdge")
        /\ fr[c].ret = NilErr
        /\ HasEdge(fr[c].pre.ns, fr[c].id, fr[c].pid)
        /\ HasEdge(fr[c].pre.nt, fr[c].pid, fr[c].id)
        /\ Snapshot # fr[c].pre

\* C13 witness of the other case: DeleteEdge has returned for two present
\* nodes with no edge, in a store that holds another edge.
C13_WitnessNoEdge ==
    \E c \in SeqCallers :
        /\ Returned(c, "DeleteEdge")
        /\ fr[c].ret = NilErr
        /\ ~HasEdge(fr[c].pre.ns, fr[c].id, fr[c].pid)
        /\ ~NoEdges(nodeSources, nodeTargets)

\* ------------------------------------------------------------------ reset
\* what the public queries answer on the store NewGraph() constructs
AnswersAsNew ==
    /\ GetNodeCountBody(nodeList) = 0
    /\ \A id \in IDS :
          /\ NodeAt(nodeList, id) = NilNode
          /\ IsErrNotExist(GetSourcesBody(nodeList, nodeSources, id).err)
          /\ IsErrNotExist(GetTargetsBody(nodeList, nodeTargets, id).err)
          /\ \A pid \in IDS :
                IsErrNotExist(GetWeightBody(nodeList, nodeSources, id, pid).err)

\* C14: in sequential use, when Init() has returned the three maps are empty
\* and the lock free, as NewGraph() leaves them: the node count is 0, GetNode
\* is nil and every edge or neighbor query fails with node-not-found for every
\* ID; Init() on the empty store changes nothing; and while only AddNode calls
\* have followed, the added nodes have no edges.
C14_Reset ==
    \A c \in SeqCallers :
        /\ Returned(c, "Init") =>
              /\ StoreEmpty
              /\ mu = [w |-> NoWriter, held |-> FALSE, r |-> [d \in Callers |-> 0]]
              /\ AnswersAsNew
              /\ fr[c].pre = NoSnapshot => Snapshot = fr[c].pre
        /\ pc[c] = "idle" /\ hist.added.on =>
              /\ NoEdges(nodeSources, nodeTargets)
              /\ \A id \in DOMAIN nodeList :
                    /\ GetSourcesBody(nodeList, nodeSources, id) = [m |-> EmptyMap, err |-> NilErr]
                    /\ GetTargetsBody(nodeList, nodeTargets, id) = [m |-> EmptyMap, err |-> NilErr]

\* C14 witness: Init has returned on a store that held a node and an edge.
C14_Witness ==
    \E c \in SeqCallers :
        /\ Returned(c, "Init")
        /\ fr[c].pre.nl # EmptyMap
        /\ ~NoEdges(fr[c].pre.ns, fr[c].pre.nt)

\* ------------------------------------------- invariants under concurrency
NoDangling(nl, ns, nt) == IndexIDs(ns) \cup IndexIDs(nt) \subseteq DOMAIN nl

\* C15: with several callers running any public methods concurrently, Init
\* included, in every state in which no method is in progress the two indices
\* mirror each other with equal weights and every ID in an index is a key of
\* the node map.
C15_InvariantsConcurrent ==
    (\A c \in Callers : pc[c] = "idle") =>
        /\ Mirror(nodeSources, nodeTargets)
        /\ NoDangling(nodeList, nodeSources, nodeTargets)

\* ------------------------------------------------------------- live alias
\* C16: the map a caller has stored from GetNodes(), with no Init since it
\* was obtained, is the object g.nodeList refers to, so at every moment, also
\* while another caller holds the exclusive lock and is writing, its contents
\* are the store's node map: what AddNode inserts later is in it and what
\* DeleteNode removes later is gone from it. The caller holding it is outside
\* every method and holds neither side of the lock.
C16_GetNodesLiveAlias ==
    \A c \in Callers :
        kept[c].nodes.ref # NoRef /\ kept[c].nodes.ref \notin heap.before =>
            /\ kept[c].nodes.ref = heap.ref
            /\ Deref(kept[c].nodes.ref) = nodeList
            /\ pc[c] = "idle" => ~HoldsShared(c) /\ ~HoldsExclusive(c)

\* C16 witness: caller c is outside every method with a stored node map, while
\* caller d holds the exclusive lock inside AddNode; the node d has inserted
\* was not in the map when c stored it and is in it now.
C16_Witness ==
    \E c \in Callers, d \in Callers :
        /\ c # d
        /\ pc[c] = "idle"
        /\ kept[c].nodes.ref # NoRef
        /\ kept[c].nodes.ref \notin heap.before
        /\ pc[d] = "Unlock" /\ fr[d].op = "AddNode" /\ HoldsExclusive(d)
        /\ GetId(fr[d].nd) \notin DOMAIN kept[c].nodes.seen
        /\ GetId(fr[d].nd) \in DOMAIN Deref(kept[c].nodes.ref)

\* C16 witness of the removal: a node that was in the stored map is gone from
\* it after a DeleteNode.
C16_WitnessRemoved ==
    \E c \in Callers :
        /\ kept[c].nodes.ref # NoRef
        /\ kept[c].nodes.ref \notin heap.before
        /\ \E id \in DOMAIN kept[c].nodes.seen : id \notin DOMAIN Deref(kept[c].nodes.ref)

\* C16 witness of the excluded case: after an Init the stored map is no longer
\* the store's node map.
C16_WitnessInit ==
    \E c \in Callers :
        /\ kept[c].nodes.ref \in heap.before
        /\ Deref(kept[c].nodes.ref) # nodeList

\* ------------------------------------------------------ endpoint check order
\* the error a returned edge method or GetWeight has given
ErrOf(f) == IF f.op = "GetWeight" THEN f.ret.err ELSE f.ret

\* C17: AddEdge, ReplaceEdge, DeleteEdge and GetWeight test their first ID
\* before their second: with the first ID absent the error names the first ID,
\* also when the second is absent as well, and the error names a second ID
\* that differs from the first only when the first is present and the second
\* absent.
C17_EndpointCheckOrder ==
    \A c \in SeqCallers :
        pc[c] = "Return" /\ fr[c].op \in EdgeMutators \cup {"GetWeight"} =>
            /\ ~HasKey(fr[c].pre.nl, fr[c].id) => ErrOf(fr[c]) = ErrNotExist(fr[c].id)
            /\ (HasKey(fr[c].pre.nl, fr[c].id) /\ ~HasKey(fr[c].pre.nl, fr[c].pid))
                  => ErrOf(fr[c]) = ErrNotExist(fr[c].pid)
            /\ (ErrOf(fr[c]) = ErrNotExist(fr[c].pid) /\ fr[c].pid # fr[c].id)
                  => HasKey(fr[c].pre.nl, fr[c].id) /\ ~HasKey(fr[c].pre.nl, fr[c].pid)

\* C17 witness: ReplaceEdge has returned for two distinct IDs that were both
\* absent, with the error naming the first.
C17_Witness ==
    \E c \in SeqCallers :
        /\ Returned(c, "ReplaceEdge")
        /\ fr[c].id # fr[c].pid
        /\ ~HasKey(fr[c].pre.nl, fr[c].id)
        /\ ~HasKey(fr[c].pre.nl, fr[c].pid)
        /\ fr[c].ret = ErrNotExist(fr[c].id)

\* C17 witness of the other case: GetWeight has returned with its first ID
\* present and its second absent.
C17_WitnessSecond ==
    \E c \in SeqCallers :
        /\ Returned(c, "GetWeight")
        /\ HasKey(fr[c].pre.nl, fr[c].id)
        /\ ~HasKey(fr[c].pre.nl, fr[c].pid)
        /\ fr[c].ret.err = ErrNotExist(fr[c].pid)

\* ------------------------------------------------------------------ frame
\* the edge of q reads the same in the indices ns, nt and in ms, mt
SameEdge(ns, nt, ms, mt, q) ==
    /\ HasEdge(ns, q[1], q[2]) <=> HasEdge(ms, q[1], q[2])
    /\ HasEdge(ns, q[1], q[2]) /\ HasEdge(ms, q[1], q[2]) => ns[q[1]][q[2]] = ms[q[1]][q[2]]
    /\ HasEdge(nt, q[2], q[1]) <=> HasEdge(mt, q[2], q[1])
    /\ HasEdge(nt, q[2], q[1]) /\ HasEdge(mt, q[2], q[1]) => nt[q[2]][q[1]] = mt[q[2]][q[1]]

\* C18: in sequential use, a successful AddEdge, ReplaceEdge or DeleteEdge on
\* (u, v) leaves the node map and the node count as they were, and for every
\* other ordered pair, the reverse pair (v, u) included, GetWeight answers as
\* before the call and both indices hold the same edge as before; AddNode
\* leaves both indices as they were.
C18_OnePairFrame ==
    \A c \in SeqCallers :
        /\ pc[c] = "Return" /\ fr[c].op \in EdgeMutators /\ fr[c].ret = NilErr =>
              /\ nodeList = fr[c].pre.nl
              /\ GetNodeCountBody(nodeList) = GetNodeCountBody(fr[c].pre.nl)
              /\ \A q \in Pairs \ {<<fr[c].id, fr[c].pid>>} :
                    /\ GetWeightBody(nodeList, nodeSources, q[1], q[2])
                          = GetWeightBody(fr[c].pre.nl, fr[c].pre.ns, q[1], q[2])
                    /\ SameEdge(nodeSources, nodeTargets, fr[c].pre.ns, fr[c].pre.nt, q)
        /\ Returned(c, "AddNode") =>
              /\ nodeSources = fr[c].pre.ns
              /\ nodeTargets = fr[c].pre.nt

\* C18 witness: AddEdge(u, v, w) with u # v has changed the store while the
\* reverse pair (v, u) holds an edge.
C18_Witness ==
    \E c \in SeqCallers :
        /\ Returned(c, "AddEdge")
        /\ fr[c].ret = NilErr
        /\ fr[c].id # fr[c].pid
        /\ HasEdge(fr[c].pre.ns, fr[c].pid, fr[c].id)
        /\ Snapshot # fr[c].pre

\* --------------------------------------------------------- no resurrection
\* C19: in sequential use, when AddNode has added a node with ID x, also after
\* a DeleteNode(x) that removed x together with its edges, GetSources(x) and
\* GetTargets(x) return empty maps and GetWeight between x and any present
\* node fails with no-such-edge; when AddEdge(u, v, w) has made the edge of a
\* pair again that DeleteEdge(u, v) had removed, GetWeight(u, v) returns w.
C19_NoResurrection ==
    \A c \in SeqCallers :
        /\ Returned(c, "AddNode") /\ fr[c].ret = TRUE =>
              LET x == GetId(fr[c].nd) IN
              /\ GetSourcesBody(nodeList, nodeSources, x) = [m |-> EmptyMap, err |-> NilErr]
              /\ GetTargetsBody(nodeList, nodeTargets, x) = [m |-> EmptyMap, err |-> NilErr]
              /\ \A y \in DOMAIN nodeList :
                    /\ GetWeightBody(nodeList, nodeSources, x, y).err = ErrNoEdge(x, y)
                    /\ GetWeightBody(nodeList, nodeSources, y, x).err = ErrNoEdge(y, x)
        /\ (/\ Returned(c, "AddEdge") /\ fr[c].ret = NilErr
            /\ <<fr[c].id, fr[c].pid>> \in hist.cut) =>
              GetWeightBody(nodeList, nodeSources, fr[c].id, fr[c].pid)
                  = [w |-> fr[c].wgt, err |-> NilErr]

\* C19 witness: AddNode has added again a node that DeleteNode had removed
\* together with an edge.
C19_Witness ==
    \E c \in SeqCallers :
        /\ Returned(c, "AddNode")
        /\ fr[c].ret = TRUE
        /\ GetId(fr[c].nd) \in hist.purged

\* C19 witness of the edge case: AddEdge has made again an edge that
\* DeleteEdge had removed with a nonzero weight.
C19_WitnessEdge ==
    \E c \in SeqCallers :
        /\ Returned(c, "AddEdge")
        /\ fr[c].ret = NilErr
        /\ <<fr[c].id, fr[c].pid>> \in hist.cut

\* -------------------------------------------------------- neighbor results
\* every entry of the neighbor map m is a present node under its own ID
HoldsPresentNodes(m) ==
    \A k \in DOMAIN m :
        /\ HasKey(nodeList, k)
        /\ m[k] = nodeList[k]
        /\ m[k] # NilNode
        /\ GetId(m[k]) = k

\* C20: in sequential use, when GetSources or GetTargets has returned without
\* an error, every key of the returned map is a key of the node map and its
\* value is the node stored there, never nil; the returned map is an object
\* of its own, not one the store refers to, so a map the caller has stored
\* holds what it held when it was returned whatever the store does later.
C20_NeighborResults ==
    \A c \in SeqCallers :
        /\ (/\ pc[c] = "Return" /\ fr[c].op \in {"GetSources", "GetTargets"}
            /\ fr[c].ret.err = NilErr) =>
              /\ fr[c].ret.m # NoRef
              /\ fr[c].ret.m # heap.ref
              /\ HoldsPresentNodes(Deref(fr[c].ret.m))
              /\ fr[c].op = "GetSources" =>
                    DOMAIN Deref(fr[c].ret.m) =
                        {p \in IDS : HasEdge(nodeSources, fr[c].id, p)}
              /\ fr[c].op = "GetTargets" =>
                    DOMAIN Deref(fr[c].ret.m) =
                        {t \in IDS : HasEdge(nodeTargets, fr[c].pid, t)}
        /\ kept[c].nbrs.ref # NoRef =>
              /\ kept[c].nbrs.ref # heap.ref
              /\ Deref(kept[c].nbrs.ref) = kept[c].nbrs.seen

\* C20 witness: the caller has stored a neighbor map with an entry, and the
\* node of that entry has since been removed from the store.
C20_Witness ==
    \E c \in SeqCallers :
        /\ pc[c] = "idle"
        /\ kept[c].nbrs.ref # NoRef
        /\ \E k \in DOMAIN kept[c].nbrs.seen : ~HasKey(nodeList, k)

\* C20 witness of the first part: GetTargets has returned a map with an entry.
C20_WitnessEntry ==
    \E c \in SeqCallers :
        /\ Returned(c, "GetTargets")
        /\ fr[c].ret.err = NilErr
        /\ Deref(fr[c].ret.m) # EmptyMap

====
